---- MODULE Spec2Model ----
(***************************************************************************)
(* Model of src/main.py: the object-tracking demonstration script.         *)
(*                                                                         *)
(* The script is one linear control flow; `pc` is its position.  The video *)
(* source, the tracker, the GUI windows, the keyboard and stdout are the   *)
(* library objects the script drives; each is modelled by the calls the    *)
(* script makes on it and by what those calls return.                      *)
(*                                                                         *)
(* Numbers held in a bounding box may be fractional (the cv2.legacy        *)
(* trackers return floating-point boxes), which is why drawRectangle       *)
(* converts with int().  A box coordinate is therefore kept in HALF        *)
(* pixels: the integer h stands for the number h/2.  Pixel coordinates     *)
(* handed to cv2.rectangle are plain integers.                             *)
(***************************************************************************)
EXTENDS Integers, Sequences, FiniteSets, TLC

(* Largest number of frames the video file may hold. *)
MaxFrames == 3

VARIABLES
    pc,            \* position of the script
    tracker_type,  \* line 48
    tracker,       \* the Tracker object: created?, its init calls, its update
                   \* calls (each with the frame passed and the tuple returned)
    srcFrames,     \* number of frames the file race_car.mp4 holds
    video,         \* the VideoCapture: opened?, read position, release calls
    ok,            \* the script's variable `ok`
    frame,         \* the script's variable `frame`
    bbox,          \* the script's variable `bbox`
    ret,           \* the tuple tracker.update returned last
    figures,       \* matplotlib figures built by displayRectangle
    windows,       \* GUI: named windows open, destroyAllWindows calls
    displayed,     \* frames handed to cv2.imshow, in order
    keys,          \* values cv2.waitKey returned, in order
    stdout,        \* lines printed
    iterLog        \* the operations of the current loop iteration, in order

vars == <<pc, tracker_type, tracker, srcFrames, video, ok, frame, bbox, ret,
          figures, windows, displayed, keys, stdout, iterLog>>

----------------------------------------------------------------------------
(* Numbers *)

(* A number with an integral value n, in half pixels. *)
Whole(n) == n + n

(* Python's int() of the number h/2: truncation toward zero. *)
PyInt(h) == IF h >= 0 THEN h \div 2 ELSE -((-h) \div 2)

(* A bounding box (x, y, w, h) written with integer literals. *)
Box(x, y, w, h) == <<Whole(x), Whole(y), Whole(w), Whole(h)>>

(* The name `bbox` before line 85 binds it. *)
Unbound == <<>>

----------------------------------------------------------------------------
(* Frames and the drawing helpers *)

(* The value None that video.read() returns with ok = False. *)
None == [id |-> 0, rects |-> <<>>, texts |-> <<>>]

(* The k-th decoded frame of the source, with no overlay. *)
Decoded(k) == [id |-> k, rects |-> <<>>, texts |-> <<>>]

(* drawRectangle converting each field before adding. *)
drawRectangle_ConvertsFieldsFirst(f, b) ==
    LET p1 == <<PyInt(b[1]), PyInt(b[2])>>
        p2 == <<PyInt(b[1]) + PyInt(b[3]), PyInt(b[2]) + PyInt(b[4])>>
    IN  [f EXCEPT !.rects = Append(@, [p1 |-> p1, p2 |-> p2])]

drawRectangle(f, b) ==
    LET p1 == <<PyInt(b[1]), PyInt(b[2])>>
        p2 == <<PyInt(b[1] + b[3]), PyInt(b[2] + b[4])>>
    IN  [f EXCEPT !.rects = Append(@, [p1 |-> p1, p2 |-> p2])]

drawText(f, txt, location, color) ==
    [f EXCEPT !.texts = Append(@, [txt |-> txt, at |-> location, color |-> color])]

(* displayRectangle draws on a copy; the frame itself is left as it is. *)
displayRectangle(f, b) == drawRectangle(f, b)

----------------------------------------------------------------------------
(* The library objects, as the script sees them *)

tracker_types ==
    <<"BOOSTING", "MIL", "KCF", "CSRT", "TLD", "MEDIANFLOW", "GOTURN", "MOSSE">>

(* The variants the script takes from cv2.legacy; their update returns a   *)
(* floating-point box, the others' an integer box.                         *)
Legacy(t) == t \notin {"KCF", "GOTURN"}

(* The variant whose create() loads goturn.prototxt and goturn.caffemodel. *)
NeedsModelFiles(t) == t = "GOTURN"

(* Boxes tracker.update may hand back: the seed box, the empty box, and    *)
(* for the floating-point variants (1300.5, 405.5, 160.5, 120.5) and       *)
(* (-0.5, -1.5, 10, 10).                                                   *)
IntBoxes == {Box(1300, 405, 160, 120), Box(0, 0, 0, 0)}
FracBoxes == {<<2601, 811, 321, 241>>, <<-1, -3, 20, 20>>}
ReturnedBoxes(t) == IF Legacy(t) THEN IntBoxes \cup FracBoxes ELSE IntBoxes

(* What cv2.waitKey(1) may return: -1 (no key), 'Q', 'q', and 'q' with a   *)
(* modifier bit above the low byte.                                        *)
Keys == {-1, 81, 113, 369}

(* ord("q") *)
OrdQ == 113

(* cv2.waitKey(1) & 0xFF == ord("q") *)
IsQuit(k) == (k % 256) = OrdQ

(* CanRead taking the frame count for the last index. *)
CanRead_OffByOne == video.opened /\ video.pos <= srcFrames

(* video.read(): the next frame, or (False, None) at the end of the        *)
(* stream and on a source that is not opened.                              *)
CanRead == video.opened /\ video.pos < srcFrames
ReadOk == CanRead
ReadFrame == IF CanRead THEN Decoded(video.pos + 1) ELSE None
ReadVideo == IF CanRead THEN [video EXCEPT !.pos = @ + 1] ELSE video

Log(op) == Append(iterLog, op)

----------------------------------------------------------------------------
(* The script, step by step *)

Init ==
    /\ pc = "create"
    /\ tracker_type \in {tracker_types[i] : i \in DOMAIN tracker_types}
    /\ tracker = [created |-> FALSE, inits |-> <<>>, updates |-> <<>>]
    /\ srcFrames \in 0..MaxFrames
    /\ video = [opened |-> FALSE, pos |-> 0, releases |-> 0]
    /\ ok = FALSE
    /\ frame = None
    /\ bbox = Unbound
    /\ ret = [ok |-> FALSE, box |-> Unbound]
    /\ figures = <<>>
    /\ windows = [open |-> {}, destroys |-> 0]
    /\ displayed = <<>>
    /\ keys = <<>>
    /\ stdout = <<>>
    /\ iterLog = <<>>

(* lines 51-66: the tracker is created; GOTURN's create raises when its    *)
(* model files are missing (lines 8-12).                                   *)
CreateTracker ==
    /\ pc = "create"
    /\ \E filesPresent \in BOOLEAN :
         IF NeedsModelFiles(tracker_type) /\ ~filesPresent
         THEN /\ pc' = "fault"
              /\ UNCHANGED tracker
         ELSE /\ pc' = "open"
              /\ tracker' = [tracker EXCEPT !.created = TRUE]
    /\ UNCHANGED <<tracker_type, srcFrames, video, ok, frame, bbox, ret,
                   figures, windows, displayed, keys, stdout, iterLog>>

(* line 69: cv2.VideoCapture("race_car.mp4") *)
OpenVideo ==
    /\ pc = "open"
    /\ \E opens \in BOOLEAN : video' = [video EXCEPT !.opened = opens]
    /\ pc' = "first_read"
    /\ UNCHANGED <<tracker_type, tracker, srcFrames, ok, frame, bbox, ret,
                   figures, windows, displayed, keys, stdout, iterLog>>

(* line 70: ok, frame = video.read() *)
FirstRead ==
    /\ pc = "first_read"
    /\ ok' = ReadOk
    /\ frame' = ReadFrame
    /\ video' = ReadVideo
    /\ pc' = "check_opened"
    /\ UNCHANGED <<tracker_type, tracker, srcFrames, bbox, ret,
                   figures, windows, displayed, keys, stdout, iterLog>>

(* CheckOpened without the exit(). *)
CheckOpened_NoExit ==
    /\ pc = "check_opened"
    /\ IF ~video.opened
       THEN /\ stdout' = Append(stdout, "Error opening video file")
            /\ pc' = "define_box"
            /\ UNCHANGED windows
       ELSE /\ windows' = [windows EXCEPT !.open = @ \cup {"Object Tracker"}]
            /\ pc' = "define_box"
            /\ UNCHANGED stdout
    /\ UNCHANGED <<tracker_type, tracker, srcFrames, video, ok, frame, bbox,
                   ret, figures, displayed, keys, iterLog>>

(* lines 72-81 *)
CheckOpened ==
    /\ pc = "check_opened"
    /\ IF ~video.opened
       THEN /\ stdout' = Append(stdout, "Error opening video file")
            /\ pc' = "exited"
            /\ UNCHANGED windows
       ELSE /\ windows' = [windows EXCEPT !.open = @ \cup {"Object Tracker"}]
            /\ pc' = "define_box"
            /\ UNCHANGED stdout
    /\ UNCHANGED <<tracker_type, tracker, srcFrames, video, ok, frame, bbox,
                   ret, figures, displayed, keys, iterLog>>

(* lines 85-86: frame.copy() in displayRectangle raises on None *)
DefineBox ==
    /\ pc = "define_box"
    /\ bbox' = Box(1300, 405, 160, 120)
    /\ IF frame = None
       THEN /\ pc' = "fault"
            /\ UNCHANGED figures
       ELSE /\ figures' = Append(figures, displayRectangle(frame, bbox'))
            /\ pc' = "init"
    /\ UNCHANGED <<tracker_type, tracker, srcFrames, video, ok, frame, ret,
                   windows, displayed, keys, stdout, iterLog>>

(* InitTracker reading a frame of its own for the initialisation. *)
InitTracker_ReadsAgain ==
    /\ pc = "init"
    /\ frame' = ReadFrame
    /\ video' = ReadVideo
    /\ tracker' = [tracker EXCEPT
                     !.inits = Append(@, [frame |-> frame'.id, bbox |-> bbox])]
    /\ ok' \in BOOLEAN
    /\ pc' = "read"
    /\ UNCHANGED <<tracker_type, srcFrames, bbox, ret,
                   figures, windows, displayed, keys, stdout, iterLog>>

(* line 89: ok = tracker.init(frame, bbox) *)
InitTracker ==
    /\ pc = "init"
    /\ tracker' = [tracker EXCEPT
                     !.inits = Append(@, [frame |-> frame.id, bbox |-> bbox])]
    /\ ok' \in BOOLEAN
    /\ pc' = "read"
    /\ UNCHANGED <<tracker_type, srcFrames, video, frame, bbox, ret,
                   figures, windows, displayed, keys, stdout, iterLog>>

(* lines 92-95 *)
LoopRead ==
    /\ pc = "read"
    /\ ok' = ReadOk
    /\ frame' = ReadFrame
    /\ video' = ReadVideo
    /\ iterLog' = <<"read">>
    /\ pc' = IF ok' THEN "update" ELSE "release"
    /\ UNCHANGED <<tracker_type, tracker, srcFrames, bbox, ret,
                   figures, windows, displayed, keys, stdout>>

(* Update assigning bbox only when the tracker reports success. *)
Update_KeepsBoxOnFailure ==
    /\ pc = "update"
    /\ \E success \in BOOLEAN, box \in ReturnedBoxes(tracker_type) :
         ret' = [ok |-> success, box |-> box]
    /\ tracker' = [tracker EXCEPT !.updates =
                     Append(@, [frame |-> frame.id, ok |-> ret'.ok,
                                box |-> ret'.box])]
    /\ ok' = ret'.ok
    /\ bbox' = IF ret'.ok THEN ret'.box ELSE bbox
    /\ iterLog' = Log("update")
    /\ pc' = "overlay"
    /\ UNCHANGED <<tracker_type, srcFrames, video, frame,
                   figures, windows, displayed, keys, stdout>>

(* line 98: ok, bbox = tracker.update(frame) *)
Update ==
    /\ pc = "update"
    /\ \E success \in BOOLEAN, box \in ReturnedBoxes(tracker_type) :
         ret' = [ok |-> success, box |-> box]
    /\ tracker' = [tracker EXCEPT !.updates =
                     Append(@, [frame |-> frame.id, ok |-> ret'.ok,
                                box |-> ret'.box])]
    /\ ok' = ret'.ok
    /\ bbox' = ret'.box
    /\ iterLog' = Log("update")
    /\ pc' = "overlay"
    /\ UNCHANGED <<tracker_type, srcFrames, video, frame,
                   figures, windows, displayed, keys, stdout>>

(* Overlay drawing the box whatever update returned. *)
Overlay_AlwaysDrawsBox ==
    /\ pc = "overlay"
    /\ frame' = IF ok
                THEN drawRectangle(frame, bbox)
                ELSE drawRectangle(drawText(frame, "Tracking failure detected",
                                            <<80, 140>>, <<0, 0, 255>>), bbox)
    /\ iterLog' = Log("overlay")
    /\ pc' = "label"
    /\ UNCHANGED <<tracker_type, tracker, srcFrames, video, ok, bbox, ret,
                   figures, windows, displayed, keys, stdout>>

(* lines 101-104 *)
Overlay ==
    /\ pc = "overlay"
    /\ frame' = IF ok
                THEN drawRectangle(frame, bbox)
                ELSE drawText(frame, "Tracking failure detected",
                              <<80, 140>>, <<0, 0, 255>>)
    /\ iterLog' = Log("overlay")
    /\ pc' = "label"
    /\ UNCHANGED <<tracker_type, tracker, srcFrames, video, ok, bbox, ret,
                   figures, windows, displayed, keys, stdout>>

(* Label left out. *)
Label_Skipped ==
    /\ pc = "label"
    /\ iterLog' = Log("label")
    /\ pc' = "show"
    /\ UNCHANGED <<tracker_type, tracker, srcFrames, video, ok, frame, bbox,
                   ret, figures, windows, displayed, keys, stdout>>

(* line 107 *)
Label ==
    /\ pc = "label"
    /\ frame' = drawText(frame, tracker_type \o " Tracker",
                         <<80, 60>>, <<50, 170, 50>>)
    /\ iterLog' = Log("label")
    /\ pc' = "show"
    /\ UNCHANGED <<tracker_type, tracker, srcFrames, video, ok, bbox, ret,
                   figures, windows, displayed, keys, stdout>>

(* line 109: cv2.imshow("Frame", frame) *)
Show ==
    /\ pc = "show"
    /\ displayed' = Append(displayed, frame)
    /\ windows' = [windows EXCEPT !.open = @ \cup {"Frame"}]
    /\ iterLog' = Log("display")
    /\ pc' = "poll"
    /\ UNCHANGED <<tracker_type, tracker, srcFrames, video, ok, frame, bbox,
                   ret, figures, keys, stdout>>

(* Poll leaving the loop on a failed update as well. *)
Poll_StopsOnFailure ==
    /\ pc = "poll"
    /\ \E k \in Keys : keys' = Append(keys, k)
    /\ iterLog' = Log("poll")
    /\ pc' = IF IsQuit(keys'[Len(keys')]) \/ ~ok THEN "release" ELSE "sleep"
    /\ UNCHANGED <<tracker_type, tracker, srcFrames, video, ok, frame, bbox,
                   ret, figures, windows, displayed, stdout>>

(* Poll without the break. *)
Poll_IgnoresQuit ==
    /\ pc = "poll"
    /\ \E k \in Keys : keys' = Append(keys, k)
    /\ iterLog' = Log("poll")
    /\ pc' = "sleep"
    /\ UNCHANGED <<tracker_type, tracker, srcFrames, video, ok, frame, bbox,
                   ret, figures, windows, displayed, stdout>>

(* lines 112-113 *)
Poll ==
    /\ pc = "poll"
    /\ \E k \in Keys : keys' = Append(keys, k)
    /\ iterLog' = Log("poll")
    /\ pc' = IF IsQuit(keys'[Len(keys')]) THEN "release" ELSE "sleep"
    /\ UNCHANGED <<tracker_type, tracker, srcFrames, video, ok, frame, bbox,
                   ret, figures, windows, displayed, stdout>>

(* line 115 *)
Sleep ==
    /\ pc = "sleep"
    /\ pc' = "read"
    /\ UNCHANGED <<tracker_type, tracker, srcFrames, video, ok, frame, bbox,
                   ret, figures, windows, displayed, keys, stdout, iterLog>>

(* video.release() followed by cv2.destroyAllWindows() *)
ReleaseAll(next) ==
    /\ video' = [video EXCEPT !.opened = FALSE, !.releases = @ + 1]
    /\ windows' = [open |-> {}, destroys |-> windows.destroys + 1]
    /\ pc' = next
    /\ UNCHANGED <<tracker_type, tracker, srcFrames, ok, frame, bbox, ret,
                   figures, displayed, keys, stdout, iterLog>>

(* lines 117-118 *)
Release ==
    /\ pc = "release"
    /\ ReleaseAll("release_again")

(* lines 121-122 *)
ReleaseAgain ==
    /\ pc = "release_again"
    /\ ReleaseAll("done")

Next ==
    \/ CreateTracker
    \/ OpenVideo
    \/ FirstRead
    \/ CheckOpened
    \/ DefineBox
    \/ InitTracker
    \/ LoopRead
    \/ Update
    \/ Overlay
    \/ Label
    \/ Show
    \/ Poll
    \/ Sleep
    \/ Release
    \/ ReleaseAgain

Spec == Init /\ [][Next]_vars

(* The script is one thread that runs each statement to completion: it     *)
(* never stops while a statement remains.                                  *)
FairSpec == Spec /\ WF_vars(Next)

----------------------------------------------------------------------------
(* Vocabulary of the properties *)

SeedBox == Box(1300, 405, 160, 120)

(* The loop's frames that carry their overlay: those displayed, and the    *)
(* one between overlay and display.  LoopFrames[i] is the frame of the     *)
(* i-th update call.                                                       *)
LoopFrames == displayed \o (IF pc \in {"label", "show"} THEN <<frame>> ELSE <<>>)

HasFailureText(f) ==
    \E j \in DOMAIN f.texts : f.texts[j].txt = "Tracking failure detected"

HasLabel(f) ==
    \E j \in DOMAIN f.texts : f.texts[j].txt = tracker_type \o " Tracker"

(* The pixel coordinate c is the number h/2 exactly. *)
IsExactly(c, h) == c + c = h

(* The pixel coordinate c is the number h/2 with its fraction dropped. *)
IsTruncationOf(c, h) ==
    \/ h >= 0 /\ 2 * c <= h /\ h < 2 * c + 2
    \/ h <= 0 /\ 2 * c >= h /\ h > 2 * c - 2

QuitSeen == \E i \in DOMAIN keys : IsQuit(keys[i])

LoopExited == pc \in {"release", "release_again", "done"}

Stopped == pc \in {"done", "exited", "fault"}

----------------------------------------------------------------------------
(* C1 *)

(* C1, as claimed: on every loop frame whose update succeeded with box     *)
(* (x, y, w, h) exactly one rectangle is drawn, its corners being exactly  *)
(* (x, y) and (x+w, y+h).                                                  *)
C1_ExactCorners ==
    \A i \in DOMAIN LoopFrames :
        tracker.updates[i].ok =>
            LET f == LoopFrames[i]
                b == tracker.updates[i].box
            IN  /\ Len(f.rects) = 1
                /\ IsExactly(f.rects[1].p1[1], b[1])
                /\ IsExactly(f.rects[1].p1[2], b[2])
                /\ IsExactly(f.rects[1].p2[1], b[1] + b[3])
                /\ IsExactly(f.rects[1].p2[2], b[2] + b[4])

(* C1, amended: on every loop frame whose update succeeded with box        *)
(* (x, y, w, h) exactly one rectangle is drawn, its corners being (x, y)   *)
(* and (x+w, y+h) each truncated toward zero to a whole pixel; when x, y,  *)
(* x+w and y+h are whole the corners are exactly those, and for the seed   *)
(* box (1300, 405, 160, 120) they are (1300, 405) and (1460, 525).         *)
C1_TruncatedCorners ==
    \A i \in DOMAIN LoopFrames :
        tracker.updates[i].ok =>
            LET f == LoopFrames[i]
                b == tracker.updates[i].box
            IN  /\ Len(f.rects) = 1
                /\ IsTruncationOf(f.rects[1].p1[1], b[1])
                /\ IsTruncationOf(f.rects[1].p1[2], b[2])
                /\ IsTruncationOf(f.rects[1].p2[1], b[1] + b[3])
                /\ IsTruncationOf(f.rects[1].p2[2], b[2] + b[4])
                /\ b = SeedBox =>
                     /\ f.rects[1].p1 = <<1300, 405>>
                     /\ f.rects[1].p2 = <<1460, 525>>

(* A displayed frame whose update succeeded with a fractional box, and one *)
(* whose update succeeded with the seed box.                               *)
C1_Witness ==
    /\ \E i \in DOMAIN displayed :
         tracker.updates[i].ok /\ tracker.updates[i].box \in FracBoxes
    /\ \E i \in DOMAIN displayed :
         tracker.updates[i].ok /\ tracker.updates[i].box = SeedBox

----------------------------------------------------------------------------
(* C2 *)

(* C2: every loop frame whose update failed carries the failure text and   *)
(* no rectangle, and every displayed frame carries exactly one of the two: *)
(* a rectangle or the failure text.                                        *)
C2_FailureTextXorRectangle ==
    /\ \A i \in DOMAIN LoopFrames :
         ~tracker.updates[i].ok =>
             HasFailureText(LoopFrames[i]) /\ LoopFrames[i].rects = <<>>
    /\ \A i \in DOMAIN displayed :
         (displayed[i].rects # <<>>) # HasFailureText(displayed[i])

(* Two frames have been displayed, one after a failed update and one after *)
(* a successful one.                                                       *)
C2_Witness ==
    /\ \E i \in DOMAIN displayed : ~tracker.updates[i].ok
    /\ \E i \in DOMAIN displayed : tracker.updates[i].ok

----------------------------------------------------------------------------
(* C10 *)

(* C10, as claimed: bbox starts as the literal; an update that succeeds    *)
(* replaces it by the returned box and an update that fails leaves it as   *)
(* it was before the iteration.                                            *)
C10_StaleOnFailure ==
    [][pc = "update" =>
         /\ ret'.ok => bbox' = ret'.box
         /\ ~ret'.ok => bbox' = bbox]_vars

(* C10, amended: bbox starts as the literal and every update, successful   *)
(* or failed, replaces it by the box the tracker returned.                 *)
C10_AlwaysReplaced ==
    /\ pc \in {"init", "read", "update"} /\ tracker.updates = <<>>
           => bbox = SeedBox
    /\ tracker.updates # <<>> =>
           bbox = tracker.updates[Len(tracker.updates)].box

(* A failed update has returned a box other than the one bbox held before  *)
(* it, and bbox now holds the returned box.                                *)
C10_Witness ==
    /\ Len(tracker.updates) >= 2
    /\ ~tracker.updates[2].ok
    /\ tracker.updates[2].box # tracker.updates[1].box
    /\ bbox = tracker.updates[2].box
    /\ Len(displayed) = 2

----------------------------------------------------------------------------
(* C3 *)

(* C3, as claimed: when the loop has ended and no quit key was seen, the   *)
(* loop has processed as many frames as the source holds.                  *)
C3_AllFramesProcessed ==
    LoopExited /\ ~QuitSeen => Len(tracker.updates) = srcFrames

(* C3, amended: once entered the loop terminates, and when it has ended    *)
(* with no quit key seen the source is exhausted and the loop has          *)
(* processed every frame but the first, which line 70 read as the seed     *)
(* frame: srcFrames - 1 frames.                                            *)
C3_AllButSeedFrameProcessed ==
    /\ [](LoopExited /\ ~QuitSeen =>
            /\ video.pos = srcFrames
            /\ Len(tracker.updates) = srcFrames - 1
            /\ Len(displayed) = srcFrames - 1)
    /\ (pc = "read" ~> LoopExited)

(* The script has run to its end over a source of three frames with no     *)
(* quit key: the loop processed two.                                       *)
C3_Witness ==
    /\ pc = "done"
    /\ ~QuitSeen
    /\ srcFrames = 3
    /\ Len(tracker.updates) = 2

----------------------------------------------------------------------------
(* C4 *)

C4_State ==
    /\ Len(tracker.inits) <= 1
    /\ \A i \in DOMAIN tracker.updates : tracker.updates[i].frame = i + 1
    /\ \A i, j \in DOMAIN displayed :
         /\ tracker.updates[i].ok = tracker.updates[j].ok
         /\ tracker.updates[i].box = tracker.updates[j].box
         => /\ displayed[i].rects = displayed[j].rects
            /\ displayed[i].texts = displayed[j].texts
    /\ (\A i \in DOMAIN tracker.updates : ~tracker.updates[i].ok) =>
         \A i \in DOMAIN displayed :
             HasFailureText(displayed[i]) /\ displayed[i].rects = <<>>
    /\ LoopExited /\ ~QuitSeen => ~ok /\ video.pos = srcFrames

C4_Step ==
    /\ pc = "poll" /\ ~IsQuit(keys'[Len(keys')]) => pc' = "sleep"
    /\ pc = "sleep" => pc' = "read"
    /\ pc = "read" /\ video.pos < srcFrames =>
         /\ pc' = "update"
         /\ frame' = Decoded(video.pos + 1)
    /\ tracker'.inits # tracker.inits => tracker.updates = <<>>

(* C4: a failed update does not end the loop.  The loop ends only on the   *)
(* quit key or at the end of the stream; after a poll that saw no quit key *)
(* it reads the next frame and calls update on it, each frame being passed *)
(* to update once and the tracker never initialised again; what a frame    *)
(* shows depends on its own update result alone; and while every update    *)
(* fails every displayed frame shows the failure text and no rectangle.    *)
C4_FailureIsNotFatal == []C4_State /\ [][C4_Step]_vars

(* A run to the end of a three-frame stream in which every update failed. *)
C4_Witness ==
    /\ pc = "done"
    /\ ~QuitSeen
    /\ Len(displayed) = 2
    /\ \A i \in DOMAIN tracker.updates : ~tracker.updates[i].ok

----------------------------------------------------------------------------
(* C5 *)

(* C5: past the check of line 72 the source is open; when it failed to     *)
(* open the script has printed the error and exited with the tracker       *)
(* never initialised or updated, nothing drawn and nothing displayed; and  *)
(* the only way the script stops before its loop without a fault is that   *)
(* exit.                                                                   *)
C5_OpenFailureExits ==
    /\ pc \in {"define_box", "init", "read", "update", "overlay", "label",
               "show", "poll", "sleep", "release"} => video.opened
    /\ pc = "exited" =>
         /\ ~video.opened
         /\ stdout = <<"Error opening video file">>
         /\ tracker.inits = <<>>
         /\ tracker.updates = <<>>
         /\ figures = <<>>
         /\ displayed = <<>>
         /\ windows.open = {}
    /\ stdout # <<>> => pc = "exited"
    /\ Stopped /\ iterLog = <<>> /\ pc # "fault" => pc = "exited"

(* The script has exited on a source that did not open. *)
C5_Witness == pc = "exited" /\ ~video.opened /\ srcFrames > 0

----------------------------------------------------------------------------
(* C6 *)

(* C6, as claimed: when the script has run to its end the source and the   *)
(* windows are released, each by exactly one release over the whole run,   *)
(* and nothing is read, updated or displayed once a release has happened.  *)
C6_ReleasedExactlyOnce ==
    /\ pc = "done" =>
         /\ ~video.opened
         /\ windows.open = {}
         /\ video.releases = 1
         /\ windows.destroys = 1
    /\ video.releases > 0 => pc \in {"release_again", "done"}

----------------------------------------------------------------------------
(* C7 *)

C7_State ==
    /\ Len(keys) = (IF pc = "poll" THEN Len(displayed) - 1 ELSE Len(displayed))
    /\ Len(displayed) = (IF pc \in {"overlay", "label", "show"}
                         THEN Len(tracker.updates) - 1
                         ELSE Len(tracker.updates))
    /\ QuitSeen =>
         /\ LoopExited
         /\ \A i \in DOMAIN keys : IsQuit(keys[i]) <=> i = Len(keys)
         /\ Len(displayed) = Len(keys)
         /\ displayed[Len(displayed)].id = video.pos

C7_Step ==
    QuitSeen =>
        /\ displayed' = displayed
        /\ keys' = keys
        /\ tracker' = tracker
        /\ video'.pos = video.pos

(* C7: the key is polled once per loop iteration, after that iteration's   *)
(* frame has been displayed; when a poll sees the quit key the frame last  *)
(* read has been displayed, the loop is over, and from then on nothing is  *)
(* read, updated, displayed or polled.                                     *)
C7_QuitPolledOncePerIteration == []C7_State /\ [][C7_Step]_vars

(* The quit key was seen at the first poll while frames remained unread.   *)
C7_Witness ==
    /\ pc = "done"
    /\ QuitSeen
    /\ Len(displayed) = 1
    /\ video.pos < srcFrames

----------------------------------------------------------------------------
(* C8 *)

IterationOrder == <<"read", "update", "overlay", "label", "display", "poll">>

(* C8: the operations of a loop iteration happen in the order read,        *)
(* update, overlay, label, display, poll; the i-th frame the loop reads is *)
(* the i-th passed to update and the i-th displayed, and it is displayed   *)
(* with the tracker-kind label drawn last; the update calls are as many as *)
(* the frames the loop has read; a source with no frame after the seed     *)
(* frame sees no update.                                                   *)
C8_OneUpdateOneDisplayPerFrame ==
    /\ Len(iterLog) <= Len(IterationOrder)
    /\ \A i \in DOMAIN iterLog : iterLog[i] = IterationOrder[i]
    /\ \A i \in DOMAIN tracker.updates : tracker.updates[i].frame = i + 1
    /\ \A i \in DOMAIN displayed :
         /\ displayed[i].id = i + 1
         /\ displayed[i].texts # <<>>
         /\ displayed[i].texts[Len(displayed[i].texts)].txt
                = tracker_type \o " Tracker"
         /\ \A j \in DOMAIN displayed : displayed[j].id = displayed[i].id => j = i
    /\ video.pos >= 1 =>
         Len(tracker.updates) = (video.pos - 1) - (IF pc = "update" THEN 1 ELSE 0)
    /\ pc \in {"read", "sleep"} \/ LoopExited =>
         Len(displayed) = Len(tracker.updates)
    /\ srcFrames <= 1 => tracker.updates = <<>>

(* Two frames have gone through the loop, and a source holding only the    *)
(* seed frame has been played to its end.                                  *)
C8_Witness ==
    \/ pc = "sleep" /\ Len(displayed) = 2 /\ Len(iterLog) = 6
    \/ pc = "done" /\ srcFrames = 1 /\ tracker.updates = <<>>

----------------------------------------------------------------------------
(* C9 *)

(* C9: the tracker is initialised at most once, and once the loop is       *)
(* reached exactly once, with frame 1 of the source and the literal box    *)
(* (1300, 405, 160, 120); no update precedes the initialisation; the seed  *)
(* frame is read once, and the frames passed to update are other frames.   *)
C9_InitialisedOnceWithSeed ==
    /\ Len(tracker.inits) <= 1
    /\ pc \in {"read", "update", "overlay", "label", "show", "poll", "sleep"}
         \/ LoopExited
         => tracker.inits = <<[frame |-> 1, bbox |-> <<2600, 810, 320, 240>>]>>
    /\ tracker.inits = <<>> => tracker.updates = <<>>
    /\ \A i \in DOMAIN tracker.updates : tracker.updates[i].frame > 1
    /\ pc = "init" => video.pos = 1 /\ frame = Decoded(1)

(* The tracker has been initialised and then updated twice. *)
C9_Witness == Len(tracker.inits) = 1 /\ Len(tracker.updates) = 2

====
